---- MODULE Spec2Model ----
(***************************************************************************)
(* Model of the env-binder value-resolution pipeline: the alias registry   *)
(* (BinderBase.aliasesMap, addAlias, removeAlias, replaceAlias), template  *)
(* substitution (replaceDynamicVars), the resolver (getInternal, getValue) *)
(* and the typed getters of EnvBinder built on top of them.                *)
(*                                                                         *)
(* A JavaScript string is a sequence of one-character strings; a           *)
(* JavaScript value is a record with a type tag t (the result of typeof,   *)
(* with "array" split from "object"), a string s, a number n and a list    *)
(* of strings items.                                                       *)
(***************************************************************************)
EXTENDS Integers, Sequences, FiniteSets, TLC

VARIABLES env, aliasesMap, ret

vars == <<env, aliasesMap, ret>>

----------------------------------------------------------------------------
(* JavaScript values *)

Str(s) == [t |-> "string", s |-> s, n |-> 0, items |-> <<>>]

Num(n) == [t |-> "number", s |-> <<>>, n |-> n, items |-> <<>>]

Bool(b) == [t |-> "boolean", s |-> <<>>, n |-> IF b THEN 1 ELSE 0, items |-> <<>>]

\* an object literal, identified by the number of its keys (0 is {})
Obj(k) == [t |-> "object", s |-> <<>>, n |-> k, items |-> <<>>]

Arr(xs) == [t |-> "array", s |-> <<>>, n |-> 0, items |-> xs]

Undefined == [t |-> "undefined", s |-> <<>>, n |-> 0, items |-> <<>>]

----------------------------------------------------------------------------
(* String primitives of the JavaScript runtime used by the source *)

Whitespace == {" "}

StartsWith(s, p) == Len(p) <= Len(s) /\ SubSeq(s, 1, Len(p)) = p

RECURSIVE TrimStart(_)
TrimStart(s) ==
  IF s # <<>> /\ Head(s) \in Whitespace THEN TrimStart(Tail(s)) ELSE s

RECURSIVE TrimEnd(_)
TrimEnd(s) ==
  IF s # <<>> /\ s[Len(s)] \in Whitespace THEN TrimEnd(SubSeq(s, 1, Len(s) - 1)) ELSE s

\* String.prototype.trim
Trim(s) == TrimEnd(TrimStart(s))

\* The replacement-pattern expansion of String.prototype.replaceAll: "$$"
\* inserts one "$".  The other patterns ($&, $`, $') need characters that
\* are not in the alphabet of the model.
RECURSIVE GetSubstitution(_)
GetSubstitution(rep) ==
  IF Len(rep) < 2 THEN rep
  ELSE IF rep[1] = "$" /\ rep[2] = "$"
       THEN <<"$">> \o GetSubstitution(SubSeq(rep, 3, Len(rep)))
       ELSE <<Head(rep)>> \o GetSubstitution(Tail(rep))

\* String.prototype.replaceAll(pat, rep) with a non-empty string pattern:
\* every non-overlapping occurrence, left to right.
RECURSIVE ReplaceAll(_, _, _)
ReplaceAll(s, pat, rep) ==
  IF Len(s) < Len(pat) THEN s
  ELSE IF SubSeq(s, 1, Len(pat)) = pat
       THEN GetSubstitution(rep) \o ReplaceAll(SubSeq(s, Len(pat) + 1, Len(s)), pat, rep)
       ELSE <<Head(s)>> \o ReplaceAll(Tail(s), pat, rep)

\* first index i >= from with s[i] = c, 0 when there is none
RECURSIVE IndexOf(_, _, _)
IndexOf(s, c, from) ==
  IF from > Len(s) THEN 0
  ELSE IF s[from] = c THEN from ELSE IndexOf(s, c, from + 1)

\* Array.prototype.join
RECURSIVE Join(_, _)
Join(xs, sep) ==
  IF xs = <<>> THEN <<>>
  ELSE IF Len(xs) = 1 THEN xs[1] ELSE xs[1] \o sep \o Join(Tail(xs), sep)

\* String.prototype.split with a one-character separator
RECURSIVE Split(_, _)
Split(s, c) ==
  LET i == IndexOf(s, c, 1)
  IN IF i = 0 THEN <<s>>
     ELSE <<SubSeq(s, 1, i - 1)>> \o Split(SubSeq(s, i + 1, Len(s)), c)

RECURSIVE Digits(_)
Digits(n) ==
  IF n < 10 THEN <<ToString(n)>> ELSE Digits(n \div 10) \o <<ToString(n % 10)>>

\* String(val)
String(val) ==
  CASE val.t = "string" -> val.s
    [] val.t = "number" -> Digits(val.n)
    [] val.t = "boolean" -> IF val.n = 1 THEN <<"t", "r", "u", "e">> ELSE <<"f", "a", "l", "s", "e">>
    [] val.t = "undefined" -> <<"u", "n", "d", "e", "f", "i", "n", "e", "d">>
    [] val.t = "array" -> Join(val.items, <<",">>)
    [] OTHER -> <<"[", "o", "b", "j", "e", "c", "t", " ", "O", "b", "j", "e", "c", "t", "]">>

\* the truthiness of a value
Truthy(val) ==
  CASE val.t = "string" -> val.s # <<>>
    [] val.t = "number" -> val.n # 0
    [] val.t = "boolean" -> val.n = 1
    [] val.t = "undefined" -> FALSE
    [] OTHER -> TRUE

----------------------------------------------------------------------------
(* StringHelper *)

\* StringHelper.toString(val) with trim = false
toString(val) ==
  IF val.t \in {"object", "array"} THEN <<>>
  ELSE IF Truthy(val) THEN String(val) ELSE <<>>

----------------------------------------------------------------------------
(* node:path normalize, POSIX flavour *)

\* normalizeString: drops empty and "." segments and resolves ".." against
\* the segment before it; res is the list of segments kept so far
RECURSIVE normalizeString(_, _, _)
normalizeString(segs, allowAboveRoot, res) ==
  IF segs = <<>> THEN res
  ELSE LET seg == Head(segs)
           rest == Tail(segs)
       IN IF seg = <<>> \/ seg = <<".">> THEN normalizeString(rest, allowAboveRoot, res)
          ELSE IF seg = <<".", ".">>
               THEN IF res # <<>> /\ res[Len(res)] # <<".", ".">>
                    THEN normalizeString(rest, allowAboveRoot, SubSeq(res, 1, Len(res) - 1))
                    ELSE IF allowAboveRoot
                         THEN normalizeString(rest, allowAboveRoot, Append(res, seg))
                         ELSE normalizeString(rest, allowAboveRoot, res)
               ELSE normalizeString(rest, allowAboveRoot, Append(res, seg))

normalize(path) ==
  IF path = <<>> THEN <<".">>
  ELSE LET isAbsolute == path[1] = "/"
           trailingSeparator == path[Len(path)] = "/"
           p == Join(normalizeString(Split(path, "/"), ~isAbsolute, <<>>), <<"/">>)
       IN IF p = <<>>
          THEN IF isAbsolute THEN <<"/">>
               ELSE IF trailingSeparator THEN <<".", "/">> ELSE <<".">>
          ELSE (IF isAbsolute THEN <<"/">> ELSE <<>>) \o p
               \o (IF trailingSeparator THEN <<"/">> ELSE <<>>)

----------------------------------------------------------------------------
(* BinderBase *)

\* process.env[name] ?? defaultValue
EnvOr(e, name, defaultValue) ==
  IF name \in DOMAIN e /\ e[name].set THEN Str(e[name].s) ELSE defaultValue

\* index of the entry of name in the registry, 0 when it has none
RECURSIVE IndexOfAlias(_, _, _)
IndexOfAlias(m, name, i) ==
  IF i > Len(m) THEN 0
  ELSE IF m[i].name = name THEN i ELSE IndexOfAlias(m, name, i + 1)

\* the get accessor aliases: name -> value, without the isPath flag
aliases(m) ==
  [k \in {m[i].name : i \in DOMAIN m} |-> m[IndexOfAlias(m, k, 1)].value]

\* the entries of the registry from entry i on as name, value, name,
\* value, ...
RECURSIVE AliasEntries(_, _)
AliasEntries(m, i) ==
  IF i > Len(m) THEN <<>> ELSE <<m[i].name, m[i].value>> \o AliasEntries(m, i + 1)

\* the object the get accessor aliases returns: one key for each entry, in
\* the order of the registry
aliasesObject(m) == [t |-> "object", s |-> <<>>, n |-> Len(m), items |-> AliasEntries(m, 1)]

\* the loop of replaceAlias leaving at the first alias that matches
RECURSIVE replaceAliasLoopBreak(_, _, _, _)
replaceAliasLoopBreak(m, i, newValue, found) ==
  IF i > Len(m) THEN [newValue |-> newValue, found |-> found]
  ELSE LET aliasPattern == <<"$">> \o m[i].name
       IN IF StartsWith(newValue, aliasPattern)
          THEN [newValue |-> ReplaceAll(newValue, aliasPattern, m[i].value), found |-> i]
          ELSE replaceAliasLoopBreak(m, i + 1, newValue, found)

\* the loop of replaceAlias matching a token only when no letter follows it
RECURSIVE replaceAliasLoopWholeToken(_, _, _, _)
replaceAliasLoopWholeToken(m, i, newValue, found) ==
  IF i > Len(m) THEN [newValue |-> newValue, found |-> found]
  ELSE LET aliasPattern == <<"$">> \o m[i].name
           n == Len(aliasPattern)
       IN IF /\ StartsWith(newValue, aliasPattern)
             /\ (Len(newValue) = n \/ newValue[n + 1] \notin {"A", "B"})
          THEN replaceAliasLoopWholeToken(m, i + 1, ReplaceAll(newValue, aliasPattern, m[i].value), i)
          ELSE replaceAliasLoopWholeToken(m, i + 1, newValue, found)

\* the for loop of replaceAlias over aliasesMap.entries(), from entry i on;
\* found is the index of the entry last assigned to foundAlias, 0 for null
RECURSIVE replaceAliasLoop(_, _, _, _)
replaceAliasLoop(m, i, newValue, found) ==
  IF i > Len(m) THEN [newValue |-> newValue, found |-> found]
  ELSE LET aliasPattern == <<"$">> \o m[i].name
       IN IF StartsWith(newValue, aliasPattern)
          THEN replaceAliasLoop(m, i + 1, ReplaceAll(newValue, aliasPattern, m[i].value), i)
          ELSE replaceAliasLoop(m, i + 1, newValue, found)

\* replaceAlias that never normalizes
NormalizeFoundNever(m, found) == FALSE

\* whether the result of the loop is path-normalized
NormalizeFound(m, found) == m[found].isPath

\* a replaceAlias that normalizes an input no alias begins
replaceAliasNormalizeAlways(m, value) ==
  LET r == replaceAliasLoop(m, 1, String(value), 0)
  IN IF r.found = 0
     THEN IF value.t = "string" THEN Str(normalize(value.s)) ELSE value
     ELSE IF NormalizeFound(m, r.found) THEN Str(normalize(r.newValue))
          ELSE Str(r.newValue)

replaceAlias(m, value) ==
  LET r == replaceAliasLoop(m, 1, String(value), 0)
  IN IF r.found = 0 THEN value
     ELSE IF NormalizeFound(m, r.found) THEN Str(normalize(r.newValue))
          ELSE Str(r.newValue)

\* a set that adds an entry without looking for the key
MapSetAppend(m, name, entry) == Append(m, entry)

\* a set that moves an existing key to the end
MapSetMoveToEnd(m, name, entry) ==
  Append(SelectSeq(m, LAMBDA e : e.name # name), entry)

\* Map.prototype.set: an existing key keeps its position
MapSet(m, name, entry) ==
  LET i == IndexOfAlias(m, name, 1)
  IN IF i = 0 THEN Append(m, entry) ELSE [m EXCEPT ![i] = entry]

\* Map.prototype.delete
MapDelete(m, name) ==
  LET i == IndexOfAlias(m, name, 1)
  IN IF i = 0 THEN m ELSE SubSeq(m, 1, i - 1) \o SubSeq(m, i + 1, Len(m))

\* addAlias storing the value as given
StoredValueRaw(m, value) == value

\* the value stored by addAlias
StoredValue(m, value) == replaceAlias(m, Str(value)).s

addAlias(m, name, value, isPathAlias) ==
  MapSet(m, name, [name |-> name, value |-> StoredValue(m, value), isPath |-> isPathAlias])

\* removeAlias that also drops the entries registered after name
removeAliasCascade(m, name) ==
  LET i == IndexOfAlias(m, name, 1)
  IN IF i = 0 THEN m ELSE SubSeq(m, 1, i - 1)

removeAlias(m, name) == MapDelete(m, name)

\* val.replace(/^"|"$/g, '') on StringHelper.toString(val)
unquote(val) ==
  LET str == toString(val)
      a == IF str # <<>> /\ Head(str) = "\"" THEN Tail(str) ELSE str
  IN IF a # <<>> /\ a[Len(a)] = "\"" THEN SubSeq(a, 1, Len(a) - 1) ELSE a

getInternal(e, name, defaultValue) == Str(unquote(EnvOr(e, name, defaultValue)))

\* [...value.matchAll(/\$\{([^}]+)}/gm)]: the captured names, in order
RECURSIVE matchAll(_)
matchAll(s) ==
  IF Len(s) < 4 THEN <<>>
  ELSE IF s[1] = "$" /\ s[2] = "{" /\ s[3] # "}" /\ IndexOf(s, "}", 4) # 0
       THEN LET close == IndexOf(s, "}", 4)
            IN <<SubSeq(s, 3, close - 1)>> \o matchAll(SubSeq(s, close + 1, Len(s)))
       ELSE matchAll(Tail(s))

\* replaceDynamicVars reading a copy of the environment taken when the
\* binder was constructed
RECURSIVE replaceMatchesSnapshot(_, _, _)
replaceMatchesSnapshot(e, matches, newValue) ==
  IF matches = <<>> THEN newValue
  ELSE LET placeholder == <<"$", "{">> \o Head(matches) \o <<"}">>
       IN replaceMatchesSnapshot(e, Tail(matches), ReplaceAll(newValue, placeholder, <<>>))

\* the for loop of replaceDynamicVars over matches
RECURSIVE replaceMatches(_, _, _)
replaceMatches(e, matches, newValue) ==
  IF matches = <<>> THEN newValue
  ELSE LET name == Head(matches)
           placeholder == <<"$", "{">> \o name \o <<"}">>
           varValue == EnvOr(e, name, Str(<<>>)).s
       IN replaceMatches(e, Tail(matches), ReplaceAll(newValue, placeholder, varValue))

replaceDynamicVars(e, m, value) ==
  LET matches == matchAll(value)
      newValue == replaceAlias(m, Str(value)).s
  IN IF matches = <<>> THEN newValue ELSE replaceMatches(e, matches, newValue)

getValue(e, m, name, defaultValue) ==
  LET value == getInternal(e, name, defaultValue)
  IN IF value.t = "string" THEN Str(replaceDynamicVars(e, m, Trim(value.s))) ELSE value

----------------------------------------------------------------------------
(* JSON.parse, for the texts the model produces: an array of string and    *)
(* number literals, the empty object, or one string or number literal,     *)
(* with spaces as the only insignificant whitespace.  Every other text is  *)
(* a SyntaxError (ok = FALSE).  String literals hold no comma, quote or    *)
(* backslash.                                                              *)

IsDigit(c) == c \in {"0", "1", "2", "3", "4", "5", "6", "7", "8", "9"}

DigitValue(c) ==
  CASE c = "0" -> 0 [] c = "1" -> 1 [] c = "2" -> 2 [] c = "3" -> 3 [] c = "4" -> 4
    [] c = "5" -> 5 [] c = "6" -> 6 [] c = "7" -> 7 [] c = "8" -> 8 [] OTHER -> 9

RECURSIVE ParseDigits(_, _)
ParseDigits(s, acc) ==
  IF s = <<>> THEN acc ELSE ParseDigits(Tail(s), 10 * acc + DigitValue(Head(s)))

JSONFail == [ok |-> FALSE, val |-> Undefined]

JSONLiteral(text) ==
  LET t == Trim(text)
  IN IF Len(t) >= 2 /\ t[1] = "\"" /\ t[Len(t)] = "\""
        /\ \A i \in 2..(Len(t) - 1) : t[i] \notin {"\"", "\\", ","}
     THEN [ok |-> TRUE, val |-> Str(SubSeq(t, 2, Len(t) - 1))]
     ELSE IF t # <<>> /\ (\A i \in DOMAIN t : IsDigit(t[i])) /\ (Len(t) = 1 \/ t[1] # "0")
          THEN [ok |-> TRUE, val |-> Num(ParseDigits(t, 0))]
          ELSE JSONFail

\* the literals of a list of texts, <<JSONFail>> included for a bad one
RECURSIVE JSONLiterals(_)
JSONLiterals(texts) ==
  IF texts = <<>> THEN <<>> ELSE <<JSONLiteral(Head(texts))>> \o JSONLiterals(Tail(texts))

RECURSIVE JSONValues(_)
JSONValues(elems) ==
  IF elems = <<>> THEN <<>> ELSE <<Head(elems).val>> \o JSONValues(Tail(elems))

JSONParse(text) ==
  LET t == Trim(text)
  IN IF Len(t) >= 2 /\ t[1] = "[" /\ t[Len(t)] = "]"
     THEN LET inner == SubSeq(t, 2, Len(t) - 1)
              elems == JSONLiterals(Split(inner, ","))
          IN IF Trim(inner) = <<>> THEN [ok |-> TRUE, val |-> Arr(<<>>)]
             ELSE IF \A i \in DOMAIN elems : elems[i].ok
                  THEN [ok |-> TRUE, val |-> Arr(JSONValues(elems))]
                  ELSE JSONFail
     ELSE IF Len(t) >= 2 /\ t[1] = "{" /\ t[Len(t)] = "}" /\ Trim(SubSeq(t, 2, Len(t) - 1)) = <<>>
          THEN [ok |-> TRUE, val |-> Obj(0)]
          ELSE JSONLiteral(t)

----------------------------------------------------------------------------
(* EnvBinder: the outcome of a call is a record, threw telling whether the *)
(* call raised an Error and val the value it returned otherwise            *)

Returns(val) == [threw |-> FALSE, val |-> val]

Throws == [threw |-> TRUE, val |-> Undefined]

getString(e, m, name, defaultValue, required) ==
  LET value == getValue(e, m, name, defaultValue)
  IN IF required /\ ~Truthy(value) THEN Throws ELSE Returns(value)

getRequired(e, m, name) ==
  LET value == getInternal(e, name, Undefined)
  IN IF value.t = "undefined" THEN Throws
     ELSE IF value.t = "string"
          THEN Returns(Str(replaceDynamicVars(e, m, Trim(value.s))))
          ELSE Returns(value)

\* x => this.replaceDynamicVars(String(x || '').trim())
ArrayItem(e, m, x) ==
  Str(replaceDynamicVars(e, m, Trim(IF Truthy(x) THEN String(x) ELSE <<>>)))

\* data.map(ArrayItem)
RECURSIVE MapItems(_, _, _)
MapItems(e, m, data) ==
  IF data = <<>> THEN <<>>
  ELSE <<ArrayItem(e, m, Head(data))>> \o MapItems(e, m, Tail(data))

getArray(e, m, name, defaultValue, required) ==
  LET value == Trim(getValue(e, m, name, Str(<<"[", "]">>)).s)
      data == JSONParse(ReplaceAll(value, <<"'">>, <<"\"">>))
  IN IF required /\ value = <<>> THEN Throws
     ELSE IF value = <<>> THEN Returns(defaultValue)
          ELSE IF ~data.ok THEN Returns(defaultValue)
               ELSE IF data.val.t # "array" THEN Returns(defaultValue)
                    ELSE Returns(Arr(MapItems(e, m, data.val.items)))

getObject(e, m, name, defaultValue, required) ==
  LET value == Trim(getValue(e, m, name, Str(<<"{", "}">>)).s)
      data == JSONParse(value)
  IN IF required /\ value = <<>> THEN Throws
     ELSE IF value = <<>> THEN Returns(defaultValue)
          ELSE IF ~data.ok THEN Returns(defaultValue) ELSE Returns(data.val)

HexLetters == <<"A", "B", "C", "D", "E", "F">>

IsHexDigit(c) == IsDigit(c) \/ \E k \in DOMAIN HexLetters : HexLetters[k] = c

HexValue(c) ==
  IF IsDigit(c) THEN DigitValue(c) ELSE 9 + (CHOOSE k \in DOMAIN HexLetters : HexLetters[k] = c)

RECURSIVE ParseHex(_, _)
ParseHex(s, acc) ==
  IF s = <<>> THEN acc ELSE ParseHex(Tail(s), 16 * acc + HexValue(Head(s)))

\* Number(value) for the texts of the model: the empty text is 0, a text
\* of decimal digits is its value, 0x or 0X followed by hexadecimal digits
\* (upper case in the model) is its value, and every other text of the
\* model is NaN (the model has no sign, fraction, exponent, binary or octal
\* prefix, and no "Infinity")
Number(s) ==
  IF \A i \in DOMAIN s : IsDigit(s[i]) THEN [nan |-> FALSE, n |-> ParseDigits(s, 0)]
  ELSE IF Len(s) >= 3 /\ s[1] = "0" /\ s[2] \in {"x", "X"}
          /\ \A i \in 3..Len(s) : IsHexDigit(s[i])
       THEN [nan |-> FALSE, n |-> ParseHex(SubSeq(s, 3, Len(s)), 0)]
       ELSE [nan |-> TRUE, n |-> 0]

\* the longest prefix of s made of decimal digits
RECURSIVE DigitPrefix(_)
DigitPrefix(s) ==
  IF s # <<>> /\ IsDigit(Head(s)) THEN <<Head(s)>> \o DigitPrefix(Tail(s)) ELSE <<>>

\* parseInt(value, 10) for the texts of the model (no sign)
parseInt(s) ==
  LET d == DigitPrefix(TrimStart(s))
  IN IF d = <<>> THEN [nan |-> TRUE, n |-> 0] ELSE [nan |-> FALSE, n |-> ParseDigits(d, 0)]

\* Array.prototype.includes on a list of values
Includes(xs, x) == \E i \in DOMAIN xs : xs[i] = x

\* the list the doc comment of BOOLEAN_FALSY_VALUES gives as its default
BOOLEAN_FALSY_VALUES_DOC ==
  << <<"f", "a", "l", "s", "e">>, <<"0">>, <<"n", "u", "l", "l">>, <<>>,
     <<"u", "n", "d", "e", "f", "i", "n", "e", "d">> >>

BOOLEAN_FALSY_VALUES ==
  << <<"f", "a", "l", "s", "e">>, <<"0">>, <<"n", "u", "l", "l">>, <<>>,
     <<"u", "n", "d", "e", "f", "i", "n", "e", "d">>, <<"o", "f", "f">>, <<"n", "o">>,
     <<"n", "o", "n", "e">>, <<"d", "i", "s", "a", "b", "l", "e", "d">> >>

getBool(e, m, name, defaultValue, required) ==
  LET value == Trim(getValue(e, m, name, Str(String(defaultValue))).s)
  IN IF required /\ value = <<>> THEN Throws
     ELSE Returns(Bool(~(value = <<>> \/ Includes(BOOLEAN_FALSY_VALUES, value))))

getNumber(e, m, name, defaultValue, required) ==
  LET value == Trim(getValue(e, m, name, Str(String(defaultValue))).s)
      parsed == Number(value)
  IN IF required /\ value = <<>> THEN Throws
     ELSE IF parsed.nan THEN Returns(defaultValue) ELSE Returns(Num(parsed.n))

getInteger(e, m, name, defaultValue, required) ==
  LET value == Trim(getValue(e, m, name, Str(String(defaultValue))).s)
      parsed == parseInt(value)
  IN IF required /\ value = <<>> THEN Throws
     ELSE IF parsed.nan THEN Returns(defaultValue) ELSE Returns(Num(parsed.n))

\* \d+
IsDigits(s) == s # <<>> /\ \A i \in DOMAIN s : IsDigit(s[i])

\* the alternatives every field of cronRegex has: \*  \*\/\d+  \d+-\d+
\* \d+(?:,\d+)*
CronCommon(f) ==
  \/ f = <<"*">>
  \/ Len(f) >= 3 /\ f[1] = "*" /\ f[2] = "/" /\ IsDigits(SubSeq(f, 3, Len(f)))
  \/ \E k \in DOMAIN f :
       f[k] = "-" /\ IsDigits(SubSeq(f, 1, k - 1)) /\ IsDigits(SubSeq(f, k + 1, Len(f)))
  \/ LET parts == Split(f, ",") IN \A k \in DOMAIN parts : IsDigits(parts[k])

\* the alternative of field i that bounds a number: [0-5]?\d for the minute,
\* [01]?\d|2[0-3] for the hour, [12]?\d|3[01] for the day of the month,
\* [01]?\d for the month and [0-6] for the day of the week
CronBounded(i, f) ==
  LET one == Len(f) = 1 /\ IsDigit(f[1])
      two(first) == Len(f) = 2 /\ f[1] \in first /\ IsDigit(f[2])
  IN CASE i = 1 -> one \/ two({"0", "1", "2", "3", "4", "5"})
       [] i = 2 -> one \/ two({"0", "1"}) \/ (Len(f) = 2 /\ f[1] = "2" /\ f[2] \in {"0", "1", "2", "3"})
       [] i = 3 -> one \/ two({"1", "2"}) \/ (Len(f) = 2 /\ f[1] = "3" /\ f[2] \in {"0", "1"})
       [] i = 4 -> one \/ two({"0", "1"})
       [] OTHER -> Len(f) = 1 /\ f[1] \in {"0", "1", "2", "3", "4", "5", "6"}

RECURSIVE NonEmpty(_)
NonEmpty(xs) ==
  IF xs = <<>> THEN <<>>
  ELSE IF Head(xs) = <<>> THEN NonEmpty(Tail(xs)) ELSE <<Head(xs)>> \o NonEmpty(Tail(xs))

\* cronRegex.test(value): five fields from ^ to $ with \s+ between them
cronRegexTest(value) ==
  LET fields == NonEmpty(Split(value, " "))
  IN /\ value # <<>> /\ value[1] # " " /\ value[Len(value)] # " "
     /\ Len(fields) = 5
     /\ \A i \in 1..5 : CronBounded(i, fields[i]) \/ CronCommon(fields[i])

getCron(e, m, name, defaultValue, required) ==
  LET value == Trim(getValue(e, m, name, defaultValue).s)
  IN IF required /\ value = <<>> THEN Throws
     ELSE IF value = <<>> \/ Includes(BOOLEAN_FALSY_VALUES, value) THEN Returns(Bool(FALSE))
          ELSE IF ~cronRegexTest(value) THEN Throws ELSE Returns(Str(value))

getEnum(e, m, name, allowedValues, defaultValue, required) ==
  LET value == Trim(getValue(e, m, name, Str(String(defaultValue))).s)
      normalizedValue == IF Includes(allowedValues, Str(value)) THEN Str(value) ELSE defaultValue
  IN IF required /\ value = <<>> THEN Throws
     ELSE IF value = <<>> THEN Returns(defaultValue)
          ELSE IF normalizedValue = defaultValue /\ ~Includes(allowedValues, defaultValue)
               THEN Throws
               ELSE Returns(normalizedValue)

\* a Date, by its time value in whole seconds (the time values of the
\* model are whole seconds; in milliseconds they exceed the integers of TLC)
Date(n) == [t |-> "date", s |-> <<>>, n |-> n, items |-> <<>>]

\* DayFromYear of ECMAScript: the day number of 1 January of year y
DayFromYear(y) ==
  365 * (y - 1970) + ((y - 1969) \div 4) - ((y - 1901) \div 100) + ((y - 1601) \div 400)

\* new Date(value).getTime(): a text of the form YYYY is a date-only form of
\* the ECMAScript date-time format and is midnight UTC of 1 January; for
\* every other text of the model the result is the host's own fallback,
\* legacy, which ECMAScript leaves to the implementation
DateParse(value, legacy) ==
  IF Len(value) = 4 /\ IsDigits(value)
  THEN [nan |-> FALSE, n |-> DayFromYear(ParseDigits(value, 0)) * 86400]
  ELSE legacy

\* a timestamp of the model is below 1000000000000 and so is taken as a
\* number of seconds (timestamp * 1000 milliseconds)
getDate(e, m, name, defaultValue, required, legacy) ==
  LET value == Trim(getValue(e, m, name, Str(<<>>)).s)
      isoDate == DateParse(value, legacy)
      timestamp == Number(value)
  IN IF required /\ value = <<>> THEN Throws
     ELSE IF value = <<>> THEN Returns(defaultValue)
          ELSE IF ~isoDate.nan THEN Returns(Date(isoDate.n))
               ELSE IF ~timestamp.nan THEN Returns(Date(timestamp.n))
                    ELSE Returns(defaultValue)

\* parser(value) for the parser functions of the model: v => v.length,
\* v => JSON.parse(v), and a function that always throws
ApplyParser(parser, value) ==
  CASE parser = "length" -> Returns(Num(Len(value)))
    [] parser = "json" -> LET data == JSONParse(value)
                          IN IF data.ok THEN Returns(data.val) ELSE Throws
    [] OTHER -> Throws

\* getCustom without the try around parser(value)
getCustomUncaught(e, m, name, parser, defaultValue, required) ==
  LET value == Trim(getValue(e, m, name, Str(<<>>)).s)
  IN IF required /\ value = <<>> THEN Throws
     ELSE IF value = <<>> THEN Returns(defaultValue) ELSE ApplyParser(parser, value)

getCustom(e, m, name, parser, defaultValue, required) ==
  LET value == Trim(getValue(e, m, name, Str(<<>>)).s)
      parsed == ApplyParser(parser, value)
  IN IF required /\ value = <<>> THEN Throws
     ELSE IF value = <<>> THEN Returns(defaultValue)
          ELSE IF parsed.threw THEN Returns(defaultValue) ELSE parsed

has(e, m, name) == Returns(Bool(Trim(getValue(e, m, name, Str(<<>>)).s) # <<>>))

\* url.replace(/\/+$/, '')
RECURSIVE TrimTrailingSlashes(_)
TrimTrailingSlashes(s) ==
  IF s # <<>> /\ s[Len(s)] = "/" THEN TrimTrailingSlashes(SubSeq(s, 1, Len(s) - 1)) ELSE s

getUrl(e, m, name, trimTrailingSlash, defaultValue, required) ==
  LET value == getValue(e, m, name, defaultValue)
      url == Trim(value.s)
  IN IF required /\ ~Truthy(value) THEN Throws
     ELSE IF ~Truthy(value) THEN Returns(value)
          ELSE Returns(Str(IF trimTrailingSlash THEN TrimTrailingSlashes(url) ELSE url))

\* a unit letter taken as it is written
UnitAsWritten(c) == c

\* unit.toLowerCase() for the unit letters
UnitToLowerCase(c) ==
  CASE c = "S" -> "s" [] c = "M" -> "m" [] c = "H" -> "h" [] c = "D" -> "d" [] c = "W" -> "w"
    [] OTHER -> c

\* value.match(/^(\d+)([smhdw])$/i): the digits and the unit, or no match
DurationMatch(value) ==
  IF Len(value) >= 2 /\ IsDigits(SubSeq(value, 1, Len(value) - 1))
     /\ UnitToLowerCase(value[Len(value)]) \in {"s", "m", "h", "d", "w"}
  THEN [ok |-> TRUE, numStr |-> SubSeq(value, 1, Len(value) - 1), unit |-> value[Len(value)]]
  ELSE [ok |-> FALSE, numStr |-> <<>>, unit |-> ""]

getTimeDuration(e, m, name, defaultValue, required) ==
  LET value == Trim(getValue(e, m, name, Str(<<>>)).s)
      match == DurationMatch(value)
      num == parseInt(match.numStr).n
      unit == UnitToLowerCase(match.unit)
  IN IF required /\ value = <<>> THEN Throws
     ELSE IF value = <<>> THEN Returns(defaultValue)
          ELSE IF ~match.ok THEN Returns(defaultValue)
               ELSE CASE unit = "s" -> Returns(Num(num * 1000))
                      [] unit = "m" -> Returns(Num(num * 60 * 1000))
                      [] unit = "h" -> Returns(Num(num * 60 * 60 * 1000))
                      [] unit = "d" -> Returns(Num(num * 24 * 60 * 60 * 1000))
                      [] unit = "w" -> Returns(Num(num * 7 * 24 * 60 * 60 * 1000))
                      [] OTHER -> Returns(defaultValue)

\* String(x || '').trim() handed to replaceDynamicVars, for a piece x of
\* the split
StringArrayItem(e, m, x) == Str(replaceDynamicVars(e, m, Trim(x)))

\* items.map(StringArrayItem)
RECURSIVE MapStringItems(_, _, _)
MapStringItems(e, m, items) ==
  IF items = <<>> THEN <<>>
  ELSE <<StringArrayItem(e, m, Head(items))>> \o MapStringItems(e, m, Tail(items))

\* .filter(x => x !== '' && x !== null && x !== undefined)
RECURSIVE FilterNonEmpty(_)
FilterNonEmpty(xs) ==
  IF xs = <<>> THEN <<>>
  ELSE IF Head(xs).s = <<>> THEN FilterNonEmpty(Tail(xs))
       ELSE <<Head(xs)>> \o FilterNonEmpty(Tail(xs))

getStringArray(e, m, name, defaultValue, required) ==
  LET value == Trim(getValue(e, m, name, Str(<<>>)).s)
      items == IF IndexOf(value, ",", 1) # 0 THEN Split(value, ",") ELSE <<value>>
  IN IF required /\ value = <<>> THEN Throws
     ELSE IF value = <<>> THEN Returns(defaultValue)
          ELSE Returns(Arr(FilterNonEmpty(MapStringItems(e, m, items))))

\* the body of the try of getMultiple for one entry of the config
MultipleTry(e, m, entry) ==
  LET value == getValue(e, m, entry.name, entry.defaultValue)
  IN IF entry.required /\ ~Truthy(value) THEN Throws ELSE Returns(value)

\* an entry of getMultiple without the catch
MultipleEntryUncaught(e, m, entry) == MultipleTry(e, m, entry)

\* try { ... } catch (e) { result[key] = defaultValue }
MultipleEntry(e, m, entry) ==
  LET tried == MultipleTry(e, m, entry)
  IN IF tried.threw THEN Returns(entry.defaultValue) ELSE tried

\* the for loop of getMultiple over Object.entries(config), from entry i
\* on; result holds key, value, key, value, ... of the entries done
RECURSIVE getMultipleLoop(_, _, _, _, _)
getMultipleLoop(e, m, config, i, result) ==
  IF i > Len(config)
  THEN Returns([t |-> "object", s |-> <<>>, n |-> Len(config), items |-> result])
  ELSE LET done == MultipleEntry(e, m, config[i])
       IN IF done.threw THEN Throws
          ELSE getMultipleLoop(e, m, config, i + 1, result \o <<config[i].key, done.val>>)

getMultiple(e, m, config) == getMultipleLoop(e, m, config, 1, <<>>)

----------------------------------------------------------------------------
(* Inputs of the model *)

NameA == <<"A">>

NameB == <<"B">>

EnvNames == {NameA, NameB}

\* a variable that is never in the environment
NameC == <<"C">>

GetNames == EnvNames \cup {NameC}

EnvValues ==
  { <<"x">>,
    <<"a", " ">>,
    <<"$", "{", "B", "}">>,
    <<"$", "A">>,
    <<"[", "\"", "a", "\"", "]">> }

StringDefaults == {<<>>, <<"x">>, <<"$", "{", "A", "}", "$", "{", "B", "}">>}

OtherDefaults == {Num(3000), Bool(TRUE), Obj(2)}

ArrayDefaults == {Arr(<<>>), Arr(<<Str(<<"a">>)>>)}

ObjectDefaults == {Obj(0), Obj(2)}

\* the alias values registered next to the environment: a plain one and one
\* with a template placeholder
TemplateAliasValues == {<<"a", " ">>, <<"a", "/", "$", "{", "B", "}">>}

AliasNames == {NameA, NameB}

AliasValues ==
  { <<"a">>,
    <<"a", "/">>,
    <<"$", "B", "/", "x">>,
    <<"$", "$", "B">> }

ExpandInputs ==
  { <<"$", "A">>,
    <<"$", "A", "/", "x">>,
    <<"$", "A", "/", ".", ".", "/", "x">>,
    <<"x", "$", "A">>,
    <<"$", "B", "$", "A">>,
    <<"$", "B", "/", "x">> }

\* the values of the environment the typed getters are called on
TypedValues ==
  { <<"\"", "x", "\"">>,
    <<"\"", "x">>,
    <<"x", "\"">>,
    <<"'", "x", "'">>,
    <<"0", " ", "3", " ", "*", " ", "*", " ", "*">>,
    <<"f", "a", "l", "s", "e">>,
    <<"9", "9", " ", "9", "9", " ", "*", " ", "*", " ", "*">>,
    <<"x">>,
    <<"i">>,
    <<"d">>,
    <<>>,
    <<"1", "2">>,
    <<"1", "x">>,
    <<"[", "\"", "a", "\"", "]">>,
    <<"{", "}">>,
    <<"2", "0", "2", "4">>,
    <<"o", "f", "f">>,
    <<"O", "f", "f">>,
    <<"0">>,
    <<"$", "{", "B", "}">>,
    <<"3", "0", "s">>,
    <<"5", "m">>,
    <<"2", "4", "h">>,
    <<"7", "d">>,
    <<"1", "w">>,
    <<"5", "M">>,
    <<"s">>,
    <<"0", "x", "1", "F">> }

BoolDefaults == {Bool(FALSE), Bool(TRUE)}

NumberDefaults == {Num(0), Num(7)}

CronDefaults == {<<>>, <<"x">>}

\* the allowedValues of every getEnum call of the model
AllowedValues == <<Str(<<"i">>), Str(<<"w">>)>>

\* the omitted default '', a default that is allowed and one that is not
EnumDefaults == {Str(<<>>), Str(<<"i">>), Str(<<"d">>)}

\* the default Date of the getDate calls of the model
DefaultDate == Date(1)

\* what the host's date parser makes of a text that is not in the ECMAScript
\* format: an invalid date, or some date
LegacyDates == {[nan |-> TRUE, n |-> 0], [nan |-> FALSE, n |-> 0]}

Parsers == {"length", "json", "fail"}

CustomDefault == Str(<<"d">>)

\* the isPathAlias of an addAlias call that does not give one
DefaultIsPathAlias == TRUE

\* a URL, and a plain host
UrlAliasValues == {<<"s", ":", "/", "/", "c">>, <<"c">>}

\* the values of the environment getUrl is called on
UrlValues ==
  { <<"$", "A", "/", "x", "/">>,
    <<"s", ":", "/", "/", "c", "/", "x", "/">>,
    <<"$", "A">>,
    <<" ", "x", "/", "/">> }

\* inputs of replaceAlias that no alias token begins: a number, a boolean
\* and a path text with a repeated separator, "." and ".."
ExpandOtherValues ==
  { Num(7),
    Bool(TRUE),
    Str(<<"a", "/", "/", ".", "/", ".", ".", "/", "x">>) }

\* the values of the environment getStringArray is called on: lists, a
\* reference to B, and texts that refer to themselves
ListValues ==
  { <<"a", ",", " ", "b">>,
    <<"a", ",", ",">>,
    <<"$", "{", "B", "}">>,
    <<"$", "{", "B", "}", " ">>,
    <<" ">> }

\* an alias name that begins with the name A
NameAB == <<"A", "B">>

PrefixNames == {NameA, NameAB}

PrefixAliasValues == {<<"a">>, <<"b", "/">>, <<"$", "A">>}

PrefixExpandInputs ==
  { <<"$", "A", "B">>,
    <<"$", "A", "B", "/", ".">>,
    <<"$", "A", "B", "/", "$", "A">>,
    <<"$", "A", "/", ".">> }

\* the configs getMultiple is called on: none, one or two entries
ConfigEntry(key, name, defaultValue, required) ==
  [key |-> key, name |-> name, defaultValue |-> defaultValue, required |-> required]

Configs ==
  {<<>>}
  \cup { <<ConfigEntry(<<"p">>, name, d, required)>> :
           name \in GetNames, d \in {Str(<<>>), Num(3000)}, required \in BOOLEAN }
  \cup { <<ConfigEntry(<<"p">>, name, Str(<<"x">>), TRUE),
           ConfigEntry(<<"q">>, NameB, Num(3000), required)>> :
           name \in GetNames, required \in BOOLEAN }

\* alias values that hold their own or each other's token
LoopAliasValues == {<<"$", "A">>, <<"$", "B">>, <<"a">>}

LoopExpandInputs == {<<"$", "A">>, <<"$", "B", "/", "x">>}

\* values of a variable that hold its own placeholder
LoopEnvValues == {<<"$", "{", "A", "}">>, <<"$", "A", "$", "{", "A", "}", "$", "{", "B", "}">>}

\* the longest value the registry stores in the model: a self-referring
\* registration (addAlias('B', '$B/x') again and again) grows without end
MaxLen == 8

Unset == [set |-> FALSE, s |-> <<>>]

IsSet(name) == name \in DOMAIN env /\ env[name].set

Call(op, name, arg, required, out) ==
  [op |-> op, name |-> name, arg |-> arg, required |-> required, out |-> out]

\* a call that takes one more argument: the allowed values, the parser or
\* the host's date parser
CallWith(op, name, arg, required, with, out) ==
  [op |-> op, name |-> name, arg |-> arg, required |-> required, with |-> with, out |-> out]

NoCall(op) == Call(op, <<>>, Undefined, FALSE, Returns(Undefined))

----------------------------------------------------------------------------
(* The state machine: the environment, the alias registry of the single    *)
(* EnvBinder instance, and the last call with its outcome                  *)

Init ==
  /\ env = [n \in EnvNames |-> Unset]
  /\ aliasesMap = <<>>
  /\ ret = NoCall("new")

\* the process environment is written by the host program only
SetEnv(name, value) ==
  /\ env' = [env EXCEPT ![name] = [set |-> TRUE, s |-> value]]
  /\ ret' = NoCall("setenv")
  /\ UNCHANGED aliasesMap

UnsetEnv(name) ==
  /\ env[name].set
  /\ env' = [env EXCEPT ![name] = Unset]
  /\ ret' = NoCall("unsetenv")
  /\ UNCHANGED aliasesMap

\* addAlias that also writes the alias into the environment
AddAliasWriteBack(name, value, isPathAlias) ==
  /\ Len(StoredValue(aliasesMap, value)) <= MaxLen
  /\ aliasesMap' = addAlias(aliasesMap, name, value, isPathAlias)
  /\ ret' = Call("addAlias", name, Str(value), isPathAlias, Returns(Undefined))
  /\ env' = [env EXCEPT ![name] = [set |-> TRUE, s |-> StoredValue(aliasesMap, value)]]

AddAlias(name, value, isPathAlias) ==
  /\ Len(StoredValue(aliasesMap, value)) <= MaxLen
  /\ aliasesMap' = addAlias(aliasesMap, name, value, isPathAlias)
  /\ ret' = Call("addAlias", name, Str(value), isPathAlias, Returns(Undefined))
  /\ UNCHANGED env

RemoveAlias(name) ==
  /\ aliasesMap' = removeAlias(aliasesMap, name)
  /\ ret' = Call("removeAlias", name, Undefined, FALSE, Returns(Undefined))
  /\ UNCHANGED env

GetValue(name, defaultValue) ==
  /\ ret' = Call("getValue", name, defaultValue, FALSE,
                 Returns(getValue(env, aliasesMap, name, defaultValue)))
  /\ UNCHANGED <<env, aliasesMap>>

GetString(name, defaultValue, required) ==
  /\ ret' = Call("getString", name, defaultValue, required,
                 getString(env, aliasesMap, name, defaultValue, required))
  /\ UNCHANGED <<env, aliasesMap>>

GetRequired(name) ==
  /\ ret' = Call("getRequired", name, Undefined, TRUE, getRequired(env, aliasesMap, name))
  /\ UNCHANGED <<env, aliasesMap>>

GetArray(name, defaultValue, required) ==
  /\ ret' = Call("getArray", name, defaultValue, required,
                 getArray(env, aliasesMap, name, defaultValue, required))
  /\ UNCHANGED <<env, aliasesMap>>

GetObject(name, defaultValue, required) ==
  /\ ret' = Call("getObject", name, defaultValue, required,
                 getObject(env, aliasesMap, name, defaultValue, required))
  /\ UNCHANGED <<env, aliasesMap>>

\* the expansion of one string by the alias registry (expand)
Expand(input) ==
  /\ ret' = Call("replaceAlias", <<>>, Str(input), FALSE,
                 Returns(replaceAlias(aliasesMap, Str(input))))
  /\ UNCHANGED <<env, aliasesMap>>

\* replaceAlias called on a value of any type
ExpandValue(value) ==
  /\ ret' = Call("replaceAlias", <<>>, value, FALSE,
                 Returns(replaceAlias(aliasesMap, value)))
  /\ UNCHANGED <<env, aliasesMap>>

GetBool(name, defaultValue, required) ==
  /\ ret' = Call("getBool", name, defaultValue, required,
                 getBool(env, aliasesMap, name, defaultValue, required))
  /\ UNCHANGED <<env, aliasesMap>>

GetNumber(name, defaultValue, required) ==
  /\ ret' = Call("getNumber", name, defaultValue, required,
                 getNumber(env, aliasesMap, name, defaultValue, required))
  /\ UNCHANGED <<env, aliasesMap>>

GetInteger(name, defaultValue, required) ==
  /\ ret' = Call("getInteger", name, defaultValue, required,
                 getInteger(env, aliasesMap, name, defaultValue, required))
  /\ UNCHANGED <<env, aliasesMap>>

GetCron(name, defaultValue, required) ==
  /\ ret' = Call("getCron", name, defaultValue, required,
                 getCron(env, aliasesMap, name, defaultValue, required))
  /\ UNCHANGED <<env, aliasesMap>>

GetEnum(name, allowedValues, defaultValue, required) ==
  /\ ret' = CallWith("getEnum", name, defaultValue, required, allowedValues,
                     getEnum(env, aliasesMap, name, allowedValues, defaultValue, required))
  /\ UNCHANGED <<env, aliasesMap>>

GetDate(name, defaultValue, required, legacy) ==
  /\ ret' = CallWith("getDate", name, defaultValue, required, legacy,
                     getDate(env, aliasesMap, name, defaultValue, required, legacy))
  /\ UNCHANGED <<env, aliasesMap>>

GetCustom(name, parser, defaultValue, required) ==
  /\ ret' = CallWith("getCustom", name, defaultValue, required, parser,
                     getCustom(env, aliasesMap, name, parser, defaultValue, required))
  /\ UNCHANGED <<env, aliasesMap>>

Has(name) ==
  /\ ret' = Call("has", name, Undefined, FALSE, has(env, aliasesMap, name))
  /\ UNCHANGED <<env, aliasesMap>>

Aliases ==
  /\ ret' = Call("aliases", <<>>, Undefined, FALSE, Returns(aliasesObject(aliasesMap)))
  /\ UNCHANGED <<env, aliasesMap>>

\* addAlias(name, value), the third argument left out
AddAliasDefault(name, value) == AddAlias(name, value, DefaultIsPathAlias)

GetUrl(name, trimTrailingSlash, defaultValue, required) ==
  /\ ret' = CallWith("getUrl", name, defaultValue, required, trimTrailingSlash,
                     getUrl(env, aliasesMap, name, trimTrailingSlash, defaultValue, required))
  /\ UNCHANGED <<env, aliasesMap>>

GetTimeDuration(name, defaultValue, required) ==
  /\ ret' = Call("getTimeDuration", name, defaultValue, required,
                 getTimeDuration(env, aliasesMap, name, defaultValue, required))
  /\ UNCHANGED <<env, aliasesMap>>

GetStringArray(name, defaultValue, required) ==
  /\ ret' = Call("getStringArray", name, defaultValue, required,
                 getStringArray(env, aliasesMap, name, defaultValue, required))
  /\ UNCHANGED <<env, aliasesMap>>

GetMultiple(config) ==
  /\ ret' = CallWith("getMultiple", <<>>, Undefined, FALSE, config,
                     getMultiple(env, aliasesMap, config))
  /\ UNCHANGED <<env, aliasesMap>>

----------------------------------------------------------------------------
(* The two loops step by step.  While a call is in one of its loops, ret   *)
(* holds the frame of the call: the local variables of the loop and the    *)
(* entries tested or the matches substituted so far.  A call runs to its   *)
(* end before the next operation starts.                                   *)

LoopOps == {"replaceAlias.loop", "replaceDynamicVars.loop"}

Idle == ret.op \notin LoopOps

\* replaceAlias(input) up to the for loop: newValue = String(value),
\* foundAlias = null
ExpandBegin(input) ==
  /\ Idle
  /\ ret' = [op |-> "replaceAlias.loop", arg |-> Str(input), i |-> 1,
             newValue |-> String(Str(input)), found |-> 0, tested |-> <<>>]
  /\ UNCHANGED <<env, aliasesMap>>

\* an iteration that goes back to the first entry after a substitution
ExpandStepRescan ==
  /\ ret.op = "replaceAlias.loop" /\ ret.i <= Len(aliasesMap)
  /\ LET aliasPattern == <<"$">> \o aliasesMap[ret.i].name
         matched == StartsWith(ret.newValue, aliasPattern)
     IN ret' = [ret EXCEPT
                  !.i = IF matched THEN 1 ELSE @ + 1,
                  !.tested = IF Len(@) > Len(aliasesMap) THEN @ ELSE Append(@, ret.i),
                  !.found = IF matched THEN ret.i ELSE @,
                  !.newValue = IF matched
                               THEN ReplaceAll(@, aliasPattern, aliasesMap[ret.i].value)
                               ELSE @]
  /\ UNCHANGED <<env, aliasesMap>>

\* one iteration of the for loop of replaceAlias: entry i is tested
ExpandStep ==
  /\ ret.op = "replaceAlias.loop" /\ ret.i <= Len(aliasesMap)
  /\ LET aliasPattern == <<"$">> \o aliasesMap[ret.i].name
         matched == StartsWith(ret.newValue, aliasPattern)
     IN ret' = [ret EXCEPT
                  !.i = @ + 1,
                  !.tested = Append(@, ret.i),
                  !.found = IF matched THEN ret.i ELSE @,
                  !.newValue = IF matched
                               THEN ReplaceAll(@, aliasPattern, aliasesMap[ret.i].value)
                               ELSE @]
  /\ UNCHANGED <<env, aliasesMap>>

\* replaceAlias after the loop
ExpandEnd ==
  /\ ret.op = "replaceAlias.loop" /\ ret.i > Len(aliasesMap)
  /\ ret' = CallWith("replaceAlias", <<>>, ret.arg, FALSE, ret.tested,
                     Returns(IF ret.found = 0 THEN ret.arg
                             ELSE IF NormalizeFound(aliasesMap, ret.found)
                                  THEN Str(normalize(ret.newValue))
                                  ELSE Str(ret.newValue)))
  /\ UNCHANGED <<env, aliasesMap>>

\* getValue(name, defaultValue) up to the for loop of replaceDynamicVars:
\* the matches are collected and the aliases expanded
GetValueBegin(name, defaultValue) ==
  /\ Idle
  /\ LET value == Trim(getInternal(env, name, defaultValue).s)
     IN ret' = [op |-> "replaceDynamicVars.loop", name |-> name, arg |-> defaultValue,
                matches |-> matchAll(value), k |-> 1,
                newValue |-> replaceAlias(aliasesMap, Str(value)).s]
  /\ UNCHANGED <<env, aliasesMap>>

\* one iteration of the for loop of replaceDynamicVars: match k is
\* substituted
SubstituteStep ==
  /\ ret.op = "replaceDynamicVars.loop" /\ ret.k <= Len(ret.matches)
  /\ LET name == ret.matches[ret.k]
         placeholder == <<"$", "{">> \o name \o <<"}">>
         varValue == EnvOr(env, name, Str(<<>>)).s
     IN ret' = [ret EXCEPT !.k = @ + 1, !.newValue = ReplaceAll(@, placeholder, varValue)]
  /\ UNCHANGED <<env, aliasesMap>>

\* replaceDynamicVars and getValue return
GetValueEnd ==
  /\ ret.op = "replaceDynamicVars.loop" /\ ret.k > Len(ret.matches)
  /\ ret' = CallWith("getValue", ret.name, ret.arg, FALSE, ret.k - 1,
                     Returns(Str(ret.newValue)))
  /\ UNCHANGED <<env, aliasesMap>>

Next ==
  \/ \E name \in EnvNames, value \in EnvValues : SetEnv(name, value)
  \/ \E name \in EnvNames : UnsetEnv(name)
  \/ \E value \in TemplateAliasValues, isPathAlias \in BOOLEAN :
       AddAlias(NameA, value, isPathAlias)
  \/ RemoveAlias(NameA)
  \/ \E name \in GetNames, d \in {Str(x) : x \in StringDefaults} \cup OtherDefaults :
       GetValue(name, d)
  \/ \E name \in GetNames, d \in StringDefaults, required \in BOOLEAN :
       GetString(name, Str(d), required)
  \/ \E name \in GetNames : GetRequired(name)
  \/ \E name \in GetNames, d \in ArrayDefaults, required \in BOOLEAN :
       GetArray(name, d, required)
  \/ \E name \in GetNames, d \in ObjectDefaults, required \in BOOLEAN :
       GetObject(name, d, required)
  \/ \E name \in GetNames : Has(name)
  \/ Aliases

Spec == Init /\ [][Next]_vars

\* The alias registry on its own: registrations, removals and expansions
NextAlias ==
  \/ \E name \in AliasNames, value \in AliasValues, isPathAlias \in BOOLEAN :
       AddAlias(name, value, isPathAlias)
  \/ \E name \in AliasNames : RemoveAlias(name)
  \/ \E input \in ExpandInputs : Expand(input)
  \/ \E value \in ExpandOtherValues : ExpandValue(value)
  \/ Aliases

SpecAlias == Init /\ [][NextAlias]_vars

\* The typed getters over an environment of typed texts; no alias is
\* registered
NextTyped ==
  \/ \E value \in TypedValues : SetEnv(NameA, value)
  \/ SetEnv(NameB, <<"n", "o">>)
  \/ \E name \in EnvNames : UnsetEnv(name)
  \/ \E name \in GetNames : GetValue(name, Str(<<>>))
  \/ \E name \in GetNames, d \in BoolDefaults, required \in BOOLEAN :
       GetBool(name, d, required)
  \/ \E name \in GetNames, d \in NumberDefaults, required \in BOOLEAN :
       GetNumber(name, d, required)
  \/ \E name \in GetNames, d \in NumberDefaults, required \in BOOLEAN :
       GetInteger(name, d, required)
  \/ \E name \in GetNames, d \in CronDefaults, required \in BOOLEAN :
       GetCron(name, Str(d), required)
  \/ \E name \in GetNames, d \in EnumDefaults, required \in BOOLEAN :
       GetEnum(name, AllowedValues, d, required)
  \/ \E name \in GetNames, required \in BOOLEAN, legacy \in LegacyDates :
       GetDate(name, DefaultDate, required, legacy)
  \/ \E name \in GetNames, parser \in Parsers, required \in BOOLEAN :
       GetCustom(name, parser, CustomDefault, required)
  \/ \E name \in GetNames, d \in ArrayDefaults, required \in BOOLEAN :
       GetArray(name, d, required)
  \/ \E name \in GetNames, d \in ObjectDefaults, required \in BOOLEAN :
       GetObject(name, d, required)
  \/ \E name \in GetNames : Has(name)
  \/ \E name \in GetNames, d \in NumberDefaults, required \in BOOLEAN :
       GetTimeDuration(name, d, required)

SpecTyped == Init /\ [][NextTyped]_vars

\* URLs behind an alias: alias A holds a URL or a host, variable B refers
\* to it
NextUrl ==
  \/ \E value \in UrlAliasValues : AddAliasDefault(NameA, value)
  \/ \E value \in UrlAliasValues : AddAlias(NameA, value, FALSE)
  \/ RemoveAlias(NameA)
  \/ \E value \in UrlValues : SetEnv(NameB, value)
  \/ UnsetEnv(NameB)
  \/ \E name \in {NameB, NameC}, trimTrailingSlash \in BOOLEAN, d \in {<<>>, <<"x", "/">>},
        required \in BOOLEAN :
       GetUrl(name, trimTrailingSlash, Str(d), required)

SpecUrl == Init /\ [][NextUrl]_vars

\* Two aliases of which one name begins with the other
NextPrefix ==
  \/ \E name \in PrefixNames, value \in PrefixAliasValues, isPathAlias \in BOOLEAN :
       AddAlias(name, value, isPathAlias)
  \/ \E name \in PrefixNames : RemoveAlias(name)
  \/ \E input \in PrefixExpandInputs : Expand(input)

SpecPrefix == Init /\ [][NextPrefix]_vars

\* Comma-separated lists and batches of variables: variables A and B hold
\* lists, spaces or refer to B
NextList ==
  \/ \E name \in EnvNames, value \in ListValues : SetEnv(name, value)
  \/ \E name \in EnvNames : UnsetEnv(name)
  \/ \E name \in GetNames, d \in ArrayDefaults, required \in BOOLEAN :
       GetStringArray(name, d, required)
  \/ \E config \in Configs : GetMultiple(config)

SpecList == Init /\ [][NextList]_vars

\* Expansion and substitution step by step, over aliases and variables
\* that refer to themselves and to each other
NextLoop ==
  \/ \E name \in AliasNames, value \in LoopAliasValues, isPathAlias \in BOOLEAN :
       Idle /\ AddAlias(name, value, isPathAlias)
  \/ \E name \in AliasNames : Idle /\ RemoveAlias(name)
  \/ \E value \in LoopEnvValues : Idle /\ SetEnv(NameA, value)
  \/ Idle /\ UnsetEnv(NameA)
  \/ \E input \in LoopExpandInputs : ExpandBegin(input)
  \/ ExpandStep
  \/ ExpandEnd
  \/ GetValueBegin(NameA, Str(<<>>))
  \/ SubstituteStep
  \/ GetValueEnd

SpecLoop == Init /\ [][NextLoop]_vars

\* a call that has started runs on: the program is sequential and nothing
\* else is scheduled while a loop has an iteration left
SpecLoopFair ==
  /\ SpecLoop
  /\ WF_vars(ExpandStep) /\ WF_vars(ExpandEnd)
  /\ WF_vars(SubstituteStep) /\ WF_vars(GetValueEnd)

----------------------------------------------------------------------------
(* Properties of the resolver and the getters *)

\* C1: getRequired(name) raises when name is absent from the environment,
\* and returns the resolved string when it is set (SET="x" yields "x").
GetRequiredRaisesWhenAbsent ==
  ret.op = "getRequired" =>
    /\ ~IsSet(ret.name) => ret.out.threw
    /\ (IsSet(ret.name) /\ env[ret.name].s = <<"x">>) => ret.out = Returns(Str(<<"x">>))

\* C2: getValue(name, d) with name absent and d not a string returns d
\* itself, unchanged in type and value.
NonStringDefaultReturnedAsIs ==
  (ret.op = "getValue" /\ ~IsSet(ret.name) /\ ret.arg.t # "string") =>
    ret.out = Returns(ret.arg)

\* C3: with the variable absent, getArray(name, d) returns the default
\* array d and getObject(name, d) returns the default object d.
DefaultCollectionReturnedWhenAbsent ==
  (ret.op \in {"getArray", "getObject"} /\ ~IsSet(ret.name) /\ ~ret.required) =>
    ret.out = Returns(ret.arg)

\* C4: a getter called with required = true raises exactly when the value
\* resolved after applying the caller's default is empty; getArray(name, [],
\* true) and getObject(name, {}, true) raise when the variable is absent.
RequiredRaisesOnEmpty ==
  /\ (ret.op = "getString" /\ ret.required) =>
       (ret.out.threw <=> getValue(env, aliasesMap, ret.name, ret.arg).s = <<>>)
  /\ (ret.op \in {"getArray", "getObject"} /\ ret.required /\ ~IsSet(ret.name)
      /\ ret.arg \in {Arr(<<>>), Obj(0)}) => ret.out.threw

\* one left-to-right pass over s: every ${name} becomes the raw environment
\* value of name ("" when unset), and the inserted text is not looked at again
RECURSIVE SubstituteOnce(_, _)
SubstituteOnce(e, s) ==
  IF s = <<>> THEN <<>>
  ELSE IF Len(s) >= 4 /\ s[1] = "$" /\ s[2] = "{" /\ s[3] # "}" /\ IndexOf(s, "}", 4) # 0
       THEN LET close == IndexOf(s, "}", 4)
            IN EnvOr(e, SubSeq(s, 3, close - 1), Str(<<>>)).s
                 \o SubstituteOnce(e, SubSeq(s, close + 1, Len(s)))
       ELSE <<Head(s)>> \o SubstituteOnce(e, Tail(s))

\* C9: getValue replaces every ${name} of the value by the raw environment
\* value of name in a single pass; inserted text is never substituted again.
TemplateSubstitutedInOnePass ==
  ret.op = "getValue" =>
    LET value == Trim(unquote(EnvOr(env, ret.name, ret.arg)))
    IN (\A k \in DOMAIN aliasesMap : ~StartsWith(value, <<"$">> \o aliasesMap[k].name))
         => ret.out.val.s = SubstituteOnce(env, value)

\* C10: getValue trims after alias expansion and template substitution, so
\* the string it returns has no leading or trailing whitespace.
ResultHasNoSurroundingWhitespace ==
  (ret.op \in {"getValue", "getString"} /\ ~ret.out.threw /\ ret.out.val.t = "string") =>
    /\ ret.out.val.s = Trim(ret.out.val.s)
    /\ (ret.out.val.s # <<>> =>
          /\ Head(ret.out.val.s) \notin Whitespace
          /\ ret.out.val.s[Len(ret.out.val.s)] \notin Whitespace)

----------------------------------------------------------------------------
(* Properties of the alias registry *)

Token(name) == <<"$">> \o name

Occurs(s, pat) ==
  \E k \in 1..(Len(s) - Len(pat) + 1) : SubSeq(s, k, k + Len(pat) - 1) = pat

\* pat occurs in s somewhere after position 1
OccursInside(s, pat) ==
  \E k \in 2..(Len(s) - Len(pat) + 1) : SubSeq(s, k, k + Len(pat) - 1) = pat

\* v holds one of the replacement patterns $$, $&, $`, $' of replaceAll
HasPattern(v) ==
  \E k \in 1..(Len(v) - 1) : v[k] = "$" /\ v[k + 1] \in {"$", "&", "`", "'"}

After(s, pat) == SubSeq(s, Len(pat) + 1, Len(s))

NormalizedIf(isPath, s) == IF isPath THEN normalize(s) ELSE s

Registered(name) == IndexOfAlias(aliasesMap, name, 1) # 0

Entry(name) == aliasesMap[IndexOfAlias(aliasesMap, name, 1)]

\* no registered alias other than entry i has its token at the front of s
NoOtherToken(i, s) ==
  \A j \in DOMAIN aliasesMap : j # i => ~StartsWith(s, Token(aliasesMap[j].name))

\* the entries whose token the loop of replaceAlias finds at the front of
\* the string, in the order it finds them
RECURSIVE MatchedAliases(_, _, _)
MatchedAliases(m, i, s) ==
  IF i > Len(m) THEN <<>>
  ELSE IF StartsWith(s, Token(m[i].name))
       THEN <<i>> \o MatchedAliases(m, i + 1, ReplaceAll(s, Token(m[i].name), m[i].value))
       ELSE MatchedAliases(m, i + 1, s)

\* C5 as stated: for every registered alias A with value V,
\* expand("$A" + suffix) is V + suffix, and expand(prefix + "$A" + suffix)
\* with a non-empty prefix is the input.
ExpandPrefixAnchored ==
  ret.op = "replaceAlias" =>
    \A i \in DOMAIN aliasesMap :
      LET tok == Token(aliasesMap[i].name)
          input == ret.arg.s
      IN /\ StartsWith(input, tok) =>
              ret.out.val.s = aliasesMap[i].value \o After(input, tok)
         /\ OccursInside(input, tok) => ret.out.val.s = input

\* C5, amended: when A is the only alias whose token comes to the front,
\* its value V holds no replacement pattern and the suffix does not hold
\* "$A", expand("$A" + suffix) is V + suffix, path-normalized when A is
\* path-type; expand(prefix + "$A" + suffix) is the input when no
\* registered token is at the front of the input.
ExpandPrefixAnchoredNormalized ==
  ret.op = "replaceAlias" =>
    \A i \in DOMAIN aliasesMap :
      LET tok == Token(aliasesMap[i].name)
          input == ret.arg.s
          V == aliasesMap[i].value
      IN /\ ( /\ StartsWith(input, tok)
              /\ ~Occurs(After(input, tok), tok)
              /\ ~HasPattern(V)
              /\ NoOtherToken(i, input)
              /\ NoOtherToken(i, V \o After(input, tok)) )
            => ret.out.val.s = NormalizedIf(aliasesMap[i].isPath, V \o After(input, tok))
         /\ ( /\ OccursInside(input, tok)
              /\ \A j \in DOMAIN aliasesMap : ~StartsWith(input, Token(aliasesMap[j].name)) )
            => ret.out.val = ret.arg

\* a path-type alias "a/" expanded in "$A/x": the result is normalized
ExpandPathAliasWitness ==
  /\ ret.op = "replaceAlias"
  /\ ret.arg.s = <<"$", "A", "/", "x">>
  /\ Registered(NameA) /\ Entry(NameA).value = <<"a", "/">> /\ Entry(NameA).isPath
  /\ ~Registered(NameB)
  /\ ret.out.val.s = <<"a", "/", "x">>

\* C6: when several aliases match in one expand call, the result is
\* path-normalized if and only if at least one matched alias is path-type.
NormalizedIffAnyMatchedIsPath ==
  ret.op = "replaceAlias" =>
    LET matched == MatchedAliases(aliasesMap, 1, ret.arg.s)
        r == replaceAliasLoop(aliasesMap, 1, ret.arg.s, 0)
    IN Len(matched) >= 2 =>
         ret.out.val.s =
           NormalizedIf(\E k \in DOMAIN matched : aliasesMap[matched[k]].isPath, r.newValue)

ComposedAliasValue ==
  (ret.op = "addAlias" /\ Registered(ret.name)) =>
    \A x \in AliasNames :
      LET tok == Token(x)
          s == After(ret.arg.s, tok)
      IN (x # ret.name /\ StartsWith(ret.arg.s, tok)) =>
           IF Registered(x)
           THEN ( /\ ~Occurs(s, tok) /\ ~HasPattern(Entry(x).value)
                  /\ NoOtherToken(IndexOfAlias(aliasesMap, x, 1), ret.arg.s)
                  /\ NoOtherToken(IndexOfAlias(aliasesMap, x, 1), Entry(x).value \o s) )
                => aliases(aliasesMap)[ret.name] = Entry(x).value \o s
           ELSE (\A k \in DOMAIN aliasesMap : ~StartsWith(ret.arg.s, Token(aliasesMap[k].name)))
                => aliases(aliasesMap)[ret.name] = ret.arg.s

\* C8, amended: the value stored for Y is v + s path-normalized when X is
\* path-type, and v + s itself when X is not.
ComposedAliasValueNormalized ==
  (ret.op = "addAlias" /\ Registered(ret.name)) =>
    \A x \in AliasNames :
      LET tok == Token(x)
          s == After(ret.arg.s, tok)
      IN (x # ret.name /\ StartsWith(ret.arg.s, tok)) =>
           IF Registered(x)
           THEN ( /\ ~Occurs(s, tok) /\ ~HasPattern(Entry(x).value)
                  /\ NoOtherToken(IndexOfAlias(aliasesMap, x, 1), ret.arg.s)
                  /\ NoOtherToken(IndexOfAlias(aliasesMap, x, 1), Entry(x).value \o s) )
                => aliases(aliasesMap)[ret.name] =
                     NormalizedIf(Entry(x).isPath, Entry(x).value \o s)
           ELSE (\A k \in DOMAIN aliasesMap : ~StartsWith(ret.arg.s, Token(aliasesMap[k].name)))
                => aliases(aliasesMap)[ret.name] = ret.arg.s

\* B = "a/" is a path alias and A is then registered with "$B/x"
ComposedAliasWitness ==
  /\ ret.op = "addAlias" /\ ret.name = NameA
  /\ ret.arg.s = <<"$", "B", "/", "x">>
  /\ Registered(NameB) /\ Entry(NameB).value = <<"a", "/">> /\ Entry(NameB).isPath
  /\ aliases(aliasesMap)[NameA] = <<"a", "/", "x">>

----------------------------------------------------------------------------
(* Properties of unquoting and of the typed getters *)

\* the raw text of the variable the last call named
Raw == env[ret.name].s

\* s holds no "$" and no whitespace: neither trimming, alias expansion nor
\* template substitution changes it
Plain(s) == \A i \in DOMAIN s : s[i] \notin Whitespace \cup {"$"}

EnclosedInDoubleQuotes(s) == Len(s) >= 2 /\ s[1] = "\"" /\ s[Len(s)] = "\""

\* C11: unquoting removes double quotes only as an enclosing pair: a value
\* loses its first and last character exactly when it starts and ends with
\* a double quote; a value with a double quote at one end only, and a
\* single-quoted value, is unchanged.
UnquoteRemovesEnclosingPairOnly ==
  (ret.op = "getValue" /\ IsSet(ret.name) /\ Plain(Raw)) =>
    ret.out.val.s = IF EnclosedInDoubleQuotes(Raw) THEN SubSeq(Raw, 2, Len(Raw) - 1) ELSE Raw

\* s is what the resolver returns for it: no quote, no "$", no whitespace
\* at either end
Resolved(s) ==
  /\ s = Trim(s)
  /\ \A i \in DOMAIN s : s[i] \notin {"$", "\""}

\* the numbers field i of a cron expression may hold: minute 0-59, hour
\* 0-23, day of the month 1-31, month 1-12, day of the week 0-6
InCronRange(i, f) ==
  /\ IsDigits(f)
  /\ LET v == ParseDigits(f, 0)
     IN CASE i = 1 -> v <= 59
          [] i = 2 -> v <= 23
          [] i = 3 -> v >= 1 /\ v <= 31
          [] i = 4 -> v >= 1 /\ v <= 12
          [] OTHER -> v <= 6

\* a field of a cron expression: *, a step */n, a number, a range a-b or a
\* list a,b,... of numbers in the range of the field
ValidCronField(i, f) ==
  \/ f = <<"*">>
  \/ Len(f) >= 3 /\ f[1] = "*" /\ f[2] = "/" /\ IsDigits(SubSeq(f, 3, Len(f)))
  \/ \E k \in DOMAIN f :
       /\ f[k] = "-"
       /\ InCronRange(i, SubSeq(f, 1, k - 1)) /\ InCronRange(i, SubSeq(f, k + 1, Len(f)))
  \/ LET parts == Split(f, ",") IN \A k \in DOMAIN parts : InCronRange(i, parts[k])

ValidCron(s) ==
  LET fields == NonEmpty(Split(s, " "))
  IN Len(fields) = 5 /\ \A i \in 1..5 : ValidCronField(i, fields[i])

\* C12: getCron returns the resolved string unchanged when it is a valid
\* 5-field cron expression, false when it is one of the falsy tokens, and
\* raises for every other non-empty value, one with fields out of range
\* ("99 99 * * *") included.
GetCronValidates ==
  (ret.op = "getCron" /\ ~ret.required /\ IsSet(ret.name) /\ Resolved(Raw)) =>
    /\ ValidCron(Raw) => ret.out = Returns(Str(Raw))
    /\ Includes(BOOLEAN_FALSY_VALUES, Raw) => ret.out = Returns(Bool(FALSE))
    /\ (Raw # <<>> /\ ~Includes(BOOLEAN_FALSY_VALUES, Raw) /\ ~ValidCron(Raw)) => ret.out.threw

\* C13: getEnum(name, allowed, d) returns the resolved value when it is in
\* allowed; otherwise it returns d when d is in allowed; otherwise, neither
\* being in allowed, it raises.
GetEnumFallsBackOrRaises ==
  ret.op = "getEnum" /\ ~ret.required =>
    LET value == IF IsSet(ret.name) THEN Raw ELSE String(ret.arg)
    IN Resolved(value) =>
         IF Includes(ret.with, Str(value)) THEN ret.out = Returns(Str(value))
         ELSE IF Includes(ret.with, ret.arg) THEN ret.out = Returns(ret.arg)
              ELSE ret.out.threw

\* C14: every value getEnum returns without raising is in allowedValues,
\* for any environment and any default, the omitted default included.
GetEnumReturnsAllowedValue ==
  (ret.op = "getEnum" /\ ~ret.out.threw) => Includes(ret.with, ret.out.val)

\* s is a numeric literal of the model: decimal digits, or 0x and
\* hexadecimal digits
NumericLiteral(s) ==
  \/ IsDigits(s)
  \/ Len(s) >= 3 /\ s[1] = "0" /\ s[2] \in {"x", "X"} /\ \A i \in 3..Len(s) : IsHexDigit(s[i])

FalsyTokens ==
  { <<"f", "a", "l", "s", "e">>, <<"0">>, <<"n", "u", "l", "l">>, <<>>,
    <<"u", "n", "d", "e", "f", "i", "n", "e", "d">>, <<"o", "f", "f">>, <<"n", "o">>,
    <<"n", "o", "n", "e">>, <<"d", "i", "s", "a", "b", "l", "e", "d">> }

----------------------------------------------------------------------------
(* Properties of the binder as a whole *)

GetterOps ==
  {"aliases", "has", "getValue", "getString", "getRequired", "getArray", "getObject"}

\* C18: the environment is read-only input: addAlias, removeAlias, aliases,
\* getValue, has and the typed getters never add, change or remove an
\* environment variable, and no getter changes the alias registry.
EnvironmentReadOnly ==
  [][ /\ ret'.op \in GetterOps \cup {"addAlias", "removeAlias"} => env' = env
      /\ ret'.op \in GetterOps => aliasesMap' = aliasesMap ]_vars

\* alias A is registered and read back, and the environment has no A
NoWriteBackWitness ==
  /\ ret.op = "aliases" /\ Registered(NameA) /\ ~IsSet(NameA) /\ IsSet(NameB)

\* the names of the registry m
NamesOf(m) == {m[i].name : i \in DOMAIN m}

AliasTemplateInterpolated ==
  ( /\ ret.op = "getValue" /\ IsSet(ret.name) /\ Raw = <<"$", "A">>
    /\ Registered(NameA)
    /\ Entry(NameA).value \in {<<"a", "/", "$", "{", "B", "}">>, <<"a", "/", "x">>}
    /\ IsSet(NameB) /\ env[NameB].s = <<"x">> )
  => ret.out = Returns(Str(<<"a", "/", "x">>))

----------------------------------------------------------------------------
(* Properties of URLs, durations and numbers *)

\* C21: a URL registered by addAlias(name, url) without the isPathAlias
\* argument expands verbatim: with alias A = "s://c" and B = "$A/x/",
\* getUrl("B") returns "s://c/x", the "//" after the scheme kept.
UrlAliasExpandsVerbatim ==
  ( /\ ret.op = "getUrl" /\ ret.with /\ IsSet(ret.name) /\ Raw = <<"$", "A", "/", "x", "/">>
    /\ Registered(NameA) /\ Entry(NameA).isPath = DefaultIsPathAlias
    /\ Entry(NameA).value = <<"s", ":", "/", "/", "c">> )
  => ret.out = Returns(Str(<<"s", ":", "/", "/", "c", "/", "x">>))

\* the milliseconds of one unit, for the unit letters in units
MillisecondsOf(c) ==
  CASE c \in {"s", "S"} -> 1000
    [] c \in {"m", "M"} -> 60000
    [] c \in {"h", "H"} -> 3600000
    [] c \in {"d", "D"} -> 86400000
    [] OTHER -> 604800000

\* s is <digits><unit> with the unit in units
DurationForm(s, units) ==
  Len(s) >= 2 /\ IsDigits(SubSeq(s, 1, Len(s) - 1)) /\ s[Len(s)] \in units

\* what getTimeDuration is to return when the forms are those with a unit
\* in units
DurationConverted(units) ==
  (ret.op = "getTimeDuration" /\ ~ret.required) =>
    /\ ~IsSet(ret.name) => ret.out = Returns(ret.arg)
    /\ (IsSet(ret.name) /\ Resolved(Raw)) =>
         IF DurationForm(Raw, units)
         THEN ret.out = Returns(Num(ParseDigits(SubSeq(Raw, 1, Len(Raw) - 1), 0)
                                      * MillisecondsOf(Raw[Len(Raw)])))
         ELSE ret.out = Returns(ret.arg)

\* C22 as stated: getTimeDuration maps <digits><unit>, unit in {s, m, h, d,
\* w}, to digits times 1000, 60000, 3600000, 86400000, 604800000
\* milliseconds, and returns the default for an absent variable and for any
\* value not of that form.
GetTimeDurationConverts == DurationConverted({"s", "m", "h", "d", "w"})

\* C22, amended: the unit letter is taken in either case ("5M" is 300000);
\* the default is returned for an absent variable and for any value that
\* is not <digits><unit> with the unit in {s, m, h, d, w, S, M, H, D, W}.
GetTimeDurationConvertsAnyCase ==
  DurationConverted({"s", "m", "h", "d", "w", "S", "M", "H", "D", "W"})

\* "5M", the unit in upper case, is five minutes
UpperCaseUnitWitness ==
  /\ ret.op = "getTimeDuration" /\ ~ret.required
  /\ IsSet(ret.name) /\ Raw = <<"5", "M">>
  /\ ret.out = Returns(Num(300000))

NumericValue(s) ==
  IF IsDigits(s) THEN ParseDigits(s, 0) ELSE ParseHex(SubSeq(s, 3, Len(s)), 0)

\* C23 as stated: getNumber(name, d) returns d whenever the resolved value
\* is not a numeric literal ("abc") and the parsed number otherwise ("0x1F"
\* gives 31); no non-numeric resolved value gives a number other than d.
GetNumberFallsBackToDefault ==
  (ret.op = "getNumber" /\ ~ret.required /\ IsSet(ret.name) /\ Resolved(Raw)) =>
    /\ ret.out = Returns(IF NumericLiteral(Raw) THEN Num(NumericValue(Raw)) ELSE ret.arg)
    /\ Raw = <<"0", "x", "1", "F">> => ret.out = Returns(Num(31))

----------------------------------------------------------------------------
(* Further properties of the alias registry *)

\* the entry of name in registry m
EntryIn(m, name) == m[IndexOfAlias(m, name, 1)]

ExpansionTerminates ==
  /\ [](ret.op = "replaceAlias.loop" =>
          /\ ret.i <= Len(aliasesMap) + 1
          /\ Len(ret.tested) = ret.i - 1
          /\ \A j \in DOMAIN ret.tested : ret.tested[j] = j)
  /\ [](ret.op = "replaceAlias" =>
          /\ Len(ret.with) = Len(aliasesMap)
          /\ \A j, k \in DOMAIN ret.with : ret.with[j] = ret.with[k] => j = k
          /\ ret.out = Returns(replaceAlias(aliasesMap, ret.arg)))
  /\ [](ret.op = "replaceDynamicVars.loop" =>
          /\ ret.k <= Len(ret.matches) + 1
          /\ ret.matches = matchAll(Trim(unquote(EnvOr(env, ret.name, ret.arg)))))
  /\ [](ret.op = "getValue" =>
          /\ ret.with = Len(matchAll(Trim(unquote(EnvOr(env, ret.name, ret.arg)))))
          /\ ret.out = Returns(getValue(env, aliasesMap, ret.name, ret.arg)))
  /\ (ret.op \in LoopOps ~> ret.op \notin LoopOps)

\* A holds its own token "$A", B is registered after it, and expand("$A")
\* has returned after testing A and B once each
SelfReferenceWitness ==
  /\ ret.op = "replaceAlias" /\ ret.arg.s = <<"$", "A">>
  /\ Len(aliasesMap) = 2
  /\ aliasesMap[1].name = NameA /\ aliasesMap[1].value = <<"$", "A">>
  /\ ret.with = <<1, 2>>
  /\ ret.out.val.s = <<"$", "A">>

\* C26: when no registered alias token begins the input, expand returns
\* the input itself: a string character for character (".", ".." and
\* repeated separators stay, nothing is path-normalized) and a value of
\* another type with its type and value unchanged.
ExpandWithoutMatchReturnsInput ==
  (/\ ret.op = "replaceAlias"
   /\ \A i \in DOMAIN aliasesMap :
        ~StartsWith(String(ret.arg), Token(aliasesMap[i].name)))
  => ret.out = Returns(ret.arg)

\* a path-type alias is registered, and a text that normalize would change
\* has come back as it was given
UnmatchedPathWitness ==
  /\ ret.op = "replaceAlias"
  /\ \E i \in DOMAIN aliasesMap : aliasesMap[i].isPath
  /\ ret.arg.t = "string" /\ normalize(ret.arg.s) # ret.arg.s
  /\ \A i \in DOMAIN aliasesMap :
        ~StartsWith(ret.arg.s, Token(aliasesMap[i].name))
  /\ ret.out = Returns(ret.arg)

\* the names of the registry m in its iteration order
NameSeq(m) == [i \in DOMAIN m |-> m[i].name]

\* C28: expand tests the aliases in the insertion order of the registry.
\* addAlias of a registered name keeps the place of that name (value and
\* flag alone change), addAlias of an unregistered name puts it last, so
\* removeAlias followed by addAlias moves a name to the end; removeAlias
\* keeps the order of the others.  In expand, the first alias i whose token
\* begins the input is substituted, and a token its substitution brings to
\* the front is expanded by the first later alias k > i that has it, never
\* by i itself or by an alias before i.
ExpandInInsertionOrder ==
  /\ [][ /\ ret'.op = "addAlias" =>
              NameSeq(aliasesMap') =
                IF Registered(ret'.name) THEN NameSeq(aliasesMap)
                ELSE Append(NameSeq(aliasesMap), ret'.name)
         /\ ret'.op = "removeAlias" =>
              NameSeq(aliasesMap') =
                SelectSeq(NameSeq(aliasesMap), LAMBDA n : n # ret'.name) ]_vars
  /\ [](ret.op = "replaceAlias" =>
          \A i \in DOMAIN aliasesMap :
            LET input == String(ret.arg)
                tokI == Token(aliasesMap[i].name)
                s1 == ReplaceAll(input, tokI, aliasesMap[i].value)
                later == {k \in DOMAIN aliasesMap :
                            k > i /\ StartsWith(s1, Token(aliasesMap[k].name))}
            IN ( /\ StartsWith(input, tokI)
                 /\ \A j \in 1..(i - 1) : ~StartsWith(input, Token(aliasesMap[j].name)) )
               => IF later = {}
                  THEN ret.out.val.s = NormalizedIf(aliasesMap[i].isPath, s1)
                  ELSE LET k == CHOOSE x \in later : \A y \in later : x <= y
                           s2 == ReplaceAll(s1, Token(aliasesMap[k].name), aliasesMap[k].value)
                       IN (\A l \in DOMAIN aliasesMap :
                             l > k => ~StartsWith(s2, Token(aliasesMap[l].name)))
                          => ret.out.val.s = NormalizedIf(aliasesMap[k].isPath, s2))

\* B was registered before A, A's substitution brings "$B" to the front of
\* "$A", and expand("$A") has returned it unexpanded
EarlierAliasNotAppliedWitness ==
  /\ ret.op = "replaceAlias" /\ ret.arg.s = <<"$", "A">>
  /\ Len(aliasesMap) = 2
  /\ aliasesMap[1].name = NameB /\ aliasesMap[2].name = NameA
  /\ ReplaceAll(<<"$", "A">>, Token(NameA), aliasesMap[2].value) = <<"$", "B">>
  /\ ret.out.val.s = <<"$", "B">>

\* the two places of the registry where A and AB stand
PosA == IndexOfAlias(aliasesMap, NameA, 1)

PosAB == IndexOfAlias(aliasesMap, NameAB, 1)

\* the text that follows "$AB" in the input of the call
SuffixAB == After(ret.arg.s, Token(NameAB))

\* C29 as stated: with aliases A and AB registered and A before AB,
\* expand("$AB" + suffix) is value(A) + "B" + suffix, path-normalized when
\* A is path-type, and AB's value is not used; with AB before A, AB's
\* value is substituted.
PrefixNameShadows ==
  (/\ ret.op = "replaceAlias" /\ StartsWith(ret.arg.s, Token(NameAB))
   /\ PosA # 0 /\ PosAB # 0)
  => IF PosA < PosAB
     THEN ret.out.val.s =
            NormalizedIf(aliasesMap[PosA].isPath,
                         aliasesMap[PosA].value \o <<"B">> \o SuffixAB)
     ELSE LET s1 == ReplaceAll(ret.arg.s, Token(NameAB), aliasesMap[PosAB].value)
              s2 == IF StartsWith(s1, Token(NameA))
                    THEN ReplaceAll(s1, Token(NameA), aliasesMap[PosA].value)
                    ELSE s1
          IN ret.out.val.s \in {s2, normalize(s2)}

\* C29, amended: with A before AB, expand("$AB" + suffix) is
\* value(A) + "B" + suffix, path-normalized when A is path-type, when
\* value(A) holds no replacement pattern, the suffix holds no "$A" and
\* value(A) + "B" + suffix does not begin with "$AB"; with AB before A,
\* AB's value is substituted, and the result is value(AB) + suffix,
\* path-normalized when AB is path-type, when value(AB) holds no
\* replacement pattern, the suffix holds no "$AB" and value(AB) + suffix
\* does not begin with "$A".
PrefixNameShadowsUnlessRematched ==
  (/\ ret.op = "replaceAlias" /\ StartsWith(ret.arg.s, Token(NameAB))
   /\ PosA # 0 /\ PosAB # 0)
  => LET VA == aliasesMap[PosA].value
         VAB == aliasesMap[PosAB].value
     IN IF PosA < PosAB
        THEN ( /\ ~HasPattern(VA) /\ ~Occurs(SuffixAB, Token(NameA))
               /\ ~StartsWith(VA \o <<"B">> \o SuffixAB, Token(NameAB)) )
             => ret.out.val.s = NormalizedIf(aliasesMap[PosA].isPath, VA \o <<"B">> \o SuffixAB)
        ELSE ( /\ ~HasPattern(VAB) /\ ~Occurs(SuffixAB, Token(NameAB))
               /\ ~StartsWith(VAB \o SuffixAB, Token(NameA)) )
             => ret.out.val.s = NormalizedIf(aliasesMap[PosAB].isPath, VAB \o SuffixAB)

\* A = "b/" is a path alias registered before AB = "a", and expand("$AB/.")
\* has returned "b/B", built from A's value
ShadowedAliasWitness ==
  /\ ret.op = "replaceAlias" /\ ret.arg.s = <<"$", "A", "B", "/", ".">>
  /\ PosA = 1 /\ PosAB = 2
  /\ aliasesMap[1].value = <<"b", "/">> /\ aliasesMap[1].isPath
  /\ aliasesMap[2].value = <<"a">>
  /\ ret.out.val.s = <<"b", "/", "B">>

----------------------------------------------------------------------------
(* Properties of the list getters *)

\* C27: every element of the list getStringArray returns for a set
\* variable whose resolved value is not empty is a non-empty string with
\* no leading or trailing whitespace, whatever the environment holds,
\* values reached through ${...} included.
GetStringArrayItemsTrimmed ==
  (/\ ret.op = "getStringArray"
   /\ IsSet(ret.name)
   /\ Trim(getValue(env, aliasesMap, ret.name, Str(<<>>)).s) # <<>>)
  => /\ ~ret.out.threw
     /\ ret.out.val.t = "array"
     /\ \A i \in DOMAIN ret.out.val.items :
          LET x == ret.out.val.items[i]
          IN x.t = "string" /\ x.s # <<>> /\ Trim(x.s) = x.s

\* C30: getMultiple never raises: for every config and environment each
\* key of the config is in the result, and an entry marked required whose
\* resolved value is empty gets its defaultValue, no error.
GetMultipleNeverRaises ==
  ret.op = "getMultiple" =>
    /\ ~ret.out.threw
    /\ ret.out.val.t = "object"
    /\ Len(ret.out.val.items) = 2 * Len(ret.with)
    /\ \A i \in DOMAIN ret.with :
         LET entry == ret.with[i]
         IN /\ ret.out.val.items[2 * i - 1] = entry.key
            /\ (entry.required
                  /\ ~Truthy(getValue(env, aliasesMap, entry.name, entry.defaultValue)))
               => ret.out.val.items[2 * i] = entry.defaultValue

\* p is required and reads A, which holds spaces only: p has its default
\* "x", and q is in the result as well
RequiredEmptyEntryWitness ==
  /\ ret.op = "getMultiple" /\ Len(ret.with) = 2
  /\ ret.with[1].required /\ ret.with[1].name = NameA
  /\ IsSet(NameA) /\ env[NameA].s = <<" ">>
  /\ ~ret.out.threw
  /\ ret.out.val.items[1] = <<"p">> /\ ret.out.val.items[2] = Str(<<"x">>)
  /\ ret.out.val.items[3] = <<"q">>

====
